---------------------------- MODULE Spec2Model ----------------------------
(***************************************************************************)
(* A model of the rendering core of the resource-pack editor:              *)
(*   - ImageCacheManager (src/src/utils/image-cache.ts), the bounded       *)
(*     key -> value cache with its access-order list;                      *)
(*   - calculateViewport / calculateRenderRegion and the ViewportRenderer  *)
(*     redraw scheduler (src/src/utils/viewport-renderer.ts).              *)
(*                                                                         *)
(* JavaScript values are modelled as tagged records (JsUndefined, JsStr,   *)
(* JsBool) so that `if (value)` keeps its truthiness semantics.  Numbers   *)
(* are exact rationals <<numerator, denominator>>; the rounding of IEEE    *)
(* doubles is not modelled.                                                *)
(***************************************************************************)
EXTENDS Integers, Sequences, FiniteSets, TLC

(***************************************************************************)
(* Bounds of the model.                                                    *)
(***************************************************************************)
\* The cache capacity.  The program sets it to 10000 (image-cache.ts:3); the
\* model runs the same code with a capacity small enough to be filled.
maxSize == 2

\* The keys and values the callers use; both include the empty string.
Keys == {"", "a", "b", "c"}
Values == {"", "v"}

\* calculateViewport is applied to container and image sizes 1..MaxDim, pan
\* offsets -MaxPan..MaxPan and the zoom percentages Zooms.
MaxDim == 3
MaxPan == 3
MaxOps == 2
MaxCoord == 3

\* A wrapped function (debounce, throttle, rafThrottle) is called at most
\* MaxCalls times.
MaxCalls == 6

\* A monitor's start is called at most MaxStarts times, and the browser hands
\* out the handles 1..MaxHandle.
MaxStarts == 2
MaxHandle == 64

\* FPSMonitor keeps the last 60 samples (part_000:173).
FrameBufferSize == 60
Zooms == {50, 100, 200}

VARIABLES
    cache,        \* ImageCacheManager.cache: a function from the stored keys
    accessOrder,  \* ImageCacheManager.accessOrder: a sequence of keys
    cacheCall,    \* the last call on the cache: its arguments, its result and
                  \* (existed) whether its key was stored when it was made
    recency,      \* history: the stored keys, least recently touched first
    lastViewport,     \* ViewportRenderer.lastViewport: a viewport or null
    renderRegion,     \* ViewportRenderer.renderRegion: a region or null
    needsFullRedraw,  \* ViewportRenderer.needsFullRedraw
    schedCall,    \* the last call on the scheduler, its arguments and result
                  \* (reset: wasUpdated, whether an update preceded it)
    lastUpdate,   \* history: the arguments of the last updateViewport since
                  \* construction or the last reset, or null
    geomArgs,     \* the arguments of a call of one of the pure functions
    geomResult,   \* its result, undefined before the call
    timerQueue,   \* the browser's pending setTimeout tasks
    frameQueue,   \* the browser's pending requestAnimationFrame callbacks
    nextHandle,   \* the handle the next setTimeout / requestAnimationFrame returns
    inThrottle,   \* throttle: the closure variable inThrottle
    rafId,        \* rafThrottle: the closure variable rafId
    timeout,      \* debounce: the closure variable timeout
    callLog,      \* history: the calls of the wrapped function so far, each with
                  \* its argument and (open) whether it found the wrapper busy
    funcLog,      \* history: the invocations of func so far, each with its
                  \* argument and the numbers of callbacks run and calls made
    fired,        \* history: the number of timer and frame callbacks run so far
    fpsFrames,    \* FPSMonitor.frames
    fpsRafId,     \* FPSMonitor.rafId
    fpsStopped,   \* history: FPSMonitor.stop() has returned after the last start()
    isMonitoring, \* GPUMonitor.isMonitoring
    animationId,  \* GPUMonitor.animationId
    monStarts     \* history: the number of start() calls on the monitor so far

cacheVars == <<cache, accessOrder, cacheCall, recency>>

schedVars == <<lastViewport, renderRegion, needsFullRedraw, schedCall, lastUpdate>>

geomVars == <<geomArgs, geomResult>>

loopVars == <<timerQueue, frameQueue, nextHandle>>

wrapVars == <<inThrottle, rafId, timeout, callLog, funcLog, fired>>

monVars == <<fpsFrames, fpsRafId, fpsStopped, isMonitoring, animationId, monStarts>>

asyncVars == <<loopVars, wrapVars, monVars>>

vars == <<cache, accessOrder, cacheCall, recency,
          lastViewport, renderRegion, needsFullRedraw, schedCall, lastUpdate,
          geomArgs, geomResult,
          timerQueue, frameQueue, nextHandle,
          inThrottle, rafId, timeout, callLog, funcLog, fired,
          fpsFrames, fpsRafId, fpsStopped, isMonitoring, animationId, monStarts>>

(***************************************************************************)
(* JavaScript values.                                                      *)
(***************************************************************************)
JsUndefined == [t |-> "undefined"]
JsNull == [t |-> "null"]
JsStr(s) == [t |-> "string", s |-> s]
JsBool(b) == [t |-> "boolean", b |-> b]
JsNum(n) == [t |-> "number", n |-> n]

\* ToBoolean of an optional string: undefined and "" are falsy.
Truthy(v) == v.t = "string" /\ v.s # ""

(***************************************************************************)
(* Sequence helpers (Array.prototype.indexOf / splice / shift / push).     *)
(***************************************************************************)
\* indexOf: the first 1-based position of key, 0 when absent (JS: -1).
IndexOf(order, key) ==
    IF \E i \in 1..Len(order) : order[i] = key
    THEN CHOOSE i \in 1..Len(order) :
            order[i] = key /\ \A j \in 1..(i - 1) : order[j] # key
    ELSE 0

\* splice(index, 1): the array without its element at position i.
RemoveAt(order, i) ==
    [j \in 1..(Len(order) - 1) |-> IF j < i THEN order[j] ELSE order[j + 1]]

Last(s) == s[Len(s)]

(***************************************************************************)
(* ImageCacheManager.                                                      *)
(***************************************************************************)
\* Map.get(key): the stored string, or undefined.
MapGet(c, key) == IF key \in DOMAIN c THEN JsStr(c[key]) ELSE JsUndefined

\* Map.set(key, value).
MapSet(c, key, value) ==
    [k \in DOMAIN c \cup {key} |-> IF k = key THEN value ELSE c[k]]

\* Map.delete(key).
MapDelete(c, key) == [k \in DOMAIN c \ {key} |-> c[k]]

EmptyMap == [k \in {} |-> ""]

\* updateAccessOrder(key): remove the first occurrence, then push.
updateAccessOrder(order, key) ==
    LET index == IndexOf(order, key)
    IN  IF index > 0
        THEN Append(RemoveAt(order, index), key)
        ELSE Append(order, key)

\* get, line 8: `if (value)`.
GetTouches(value) == Truthy(value)

\* A set that evicts at capacity whether or not its key is stored.
SetAtCapacity_IgnoresHas(c, key) == Cardinality(DOMAIN c) >= maxSize

\* set, line 15: `this.cache.size >= this.maxSize && !this.cache.has(key)`.
SetAtCapacity(c, key) == Cardinality(DOMAIN c) >= maxSize /\ key \notin DOMAIN c

\* set, line 16: `this.accessOrder.shift()`, the removed element or undefined.
ShiftResult(order) == IF Len(order) > 0 THEN JsStr(Head(order)) ELSE JsUndefined

ShiftRest(order) == IF Len(order) > 0 THEN Tail(order) ELSE order

\* set, lines 17-19: `if (oldestKey) this.cache.delete(oldestKey)`.
DeleteOldest(c, oldestKey) ==
    IF Truthy(oldestKey) THEN MapDelete(c, oldestKey.s) ELSE c

\* The history order, kept to the keys that are stored: a key moves to the
\* tail when it is set or when a get finds it.
Touch(rec, key) == Append(SelectSeq(rec, LAMBDA k : k # key), key)

Stored(rec, c) == SelectSeq(rec, LAMBDA k : k \in DOMAIN c)

CacheInit ==
    /\ cache = EmptyMap
    /\ accessOrder = <<>>
    /\ cacheCall = [op |-> "new"]
    /\ recency = <<>>

Get(key) ==
    LET value == MapGet(cache, key)
    IN  /\ accessOrder' = IF GetTouches(value)
                          THEN updateAccessOrder(accessOrder, key)
                          ELSE accessOrder
        /\ cache' = cache
        /\ cacheCall' = [op |-> "get", key |-> key, ret |-> value,
                         existed |-> key \in DOMAIN cache]
        /\ recency' = IF key \in DOMAIN cache THEN Touch(recency, key) ELSE recency
        /\ UNCHANGED <<schedVars, geomVars, asyncVars>>

Set(key, value) ==
    LET evict     == SetAtCapacity(cache, key)
        oldestKey == ShiftResult(accessOrder)
        order1    == IF evict THEN ShiftRest(accessOrder) ELSE accessOrder
        cache1    == IF evict THEN DeleteOldest(cache, oldestKey) ELSE cache
    IN  /\ cache' = MapSet(cache1, key, value)
        /\ accessOrder' = updateAccessOrder(order1, key)
        /\ cacheCall' = [op |-> "set", key |-> key, value |-> value,
                         ret |-> JsUndefined, existed |-> key \in DOMAIN cache]
        /\ recency' = Stored(Touch(recency, key), cache')
        /\ UNCHANGED <<schedVars, geomVars, asyncVars>>

\* A has that refreshes the key it finds.
Has_Touches(key) ==
    /\ cacheCall' = [op |-> "has", key |-> key, ret |-> JsBool(key \in DOMAIN cache)]
    /\ accessOrder' = IF key \in DOMAIN cache
                      THEN updateAccessOrder(accessOrder, key)
                      ELSE accessOrder
    /\ UNCHANGED <<cache, recency>>
    /\ UNCHANGED <<schedVars, geomVars, asyncVars>>

Has(key) ==
    /\ cacheCall' = [op |-> "has", key |-> key, ret |-> JsBool(key \in DOMAIN cache)]
    /\ UNCHANGED <<cache, accessOrder, recency>>
    /\ UNCHANGED <<schedVars, geomVars, asyncVars>>

\* A clear that empties the map and keeps the access order.
Clear_KeepsOrder ==
    /\ cache' = EmptyMap
    /\ accessOrder' = accessOrder
    /\ cacheCall' = [op |-> "clear", ret |-> JsUndefined,
                     cleared |-> Cardinality(DOMAIN cache)]
    /\ recency' = <<>>
    /\ UNCHANGED <<schedVars, geomVars, asyncVars>>

\* cleared records how many entries the call removed.
Clear ==
    /\ cache' = EmptyMap
    /\ accessOrder' = <<>>
    /\ cacheCall' = [op |-> "clear", ret |-> JsUndefined,
                     cleared |-> Cardinality(DOMAIN cache)]
    /\ recency' = <<>>
    /\ UNCHANGED <<schedVars, geomVars, asyncVars>>

GetSize ==
    /\ cacheCall' = [op |-> "getSize", ret |-> JsNum(Cardinality(DOMAIN cache))]
    /\ UNCHANGED <<cache, accessOrder, recency>>
    /\ UNCHANGED <<schedVars, geomVars, asyncVars>>

CacheNext ==
    \/ \E key \in Keys : Get(key)
    \/ \E key \in Keys, value \in Values : Set(key, value)
    \/ \E key \in Keys : Has(key)
    \/ Clear
    \/ GetSize

(***************************************************************************)
(* Numbers: exact rationals <<n, d>> with d > 0, in lowest terms, and the  *)
(* three special values of a JavaScript number: Infinity <<1, 0>>,         *)
(* -Infinity <<-1, 0>> and NaN <<0, 0>>.  A division by zero gives one of  *)
(* them, as it does in JavaScript.                                         *)
(***************************************************************************)
Abs(n) == IF n < 0 THEN -n ELSE n

Sgn(n) == IF n < 0 THEN -1 ELSE IF n > 0 THEN 1 ELSE 0

RECURSIVE Gcd(_, _)
Gcd(a, b) == IF b = 0 THEN a ELSE Gcd(b, a % b)

Rat(n, d) ==
    IF d = 0
    THEN <<Sgn(n), 0>>
    ELSE LET g == Gcd(Abs(n), Abs(d))
             s == IF d < 0 THEN -1 ELSE 1
         IN  <<(s * n) \div g, (s * d) \div g>>

Num(n) == <<n, 1>>

NaN == <<0, 0>>
IsNaN(a) == a[2] = 0 /\ a[1] = 0
IsInfinite(a) == a[2] = 0 /\ a[1] # 0
IsFinite(a) == a[2] # 0

RNeg(a) == <<-a[1], a[2]>>
RAbs(a) == <<Abs(a[1]), a[2]>>
RAdd(a, b) ==
    IF IsNaN(a) \/ IsNaN(b) THEN NaN
    ELSE IF IsInfinite(a) /\ IsInfinite(b) THEN (IF a = b THEN a ELSE NaN)
    ELSE IF IsInfinite(a) THEN a
    ELSE IF IsInfinite(b) THEN b
    ELSE Rat(a[1] * b[2] + b[1] * a[2], a[2] * b[2])
RSub(a, b) == RAdd(a, RNeg(b))
RMul(a, b) == Rat(a[1] * b[1], a[2] * b[2])
\* a / b; a zero divisor is +0 (no modelled computation produces -0 there).
RDiv(a, b) == Rat(a[1] * b[2] * (IF b[1] < 0 THEN -1 ELSE 1), a[2] * Abs(b[1]))
RLt(a, b) ==
    IF IsNaN(a) \/ IsNaN(b) THEN FALSE
    ELSE IF IsInfinite(a) /\ IsInfinite(b) THEN a[1] < b[1]
    ELSE a[1] * b[2] < b[1] * a[2]
RGt(a, b) == RLt(b, a)
RLe(a, b) == RLt(a, b) \/ (a = b /\ ~IsNaN(a))
RGe(a, b) == RLe(b, a)
\* Math.max / Math.min of two numbers: NaN when either is NaN.
RMax(a, b) == IF IsNaN(a) \/ IsNaN(b) THEN NaN ELSE IF RLt(a, b) THEN b ELSE a
RMin(a, b) == IF IsNaN(a) \/ IsNaN(b) THEN NaN ELSE IF RLt(b, a) THEN b ELSE a
\* Math.floor / Math.ceil: Infinity, -Infinity and NaN are returned as they are.
RFloor(a) == IF IsFinite(a) THEN Num(a[1] \div a[2]) ELSE a
RCeil(a) == IF IsFinite(a) THEN Num(-((-a[1]) \div a[2])) ELSE a

(***************************************************************************)
(* calculateViewport.                                                      *)
(***************************************************************************)
\* An origin that is not kept at or above 0.
ViewportOrigin_Unfloored(imgStart, scale) == RDiv(RNeg(imgStart), scale)

\* An origin computed from the offset without its sign change.
ViewportOrigin_NotNegated(imgStart, scale) == RMax(Num(0), RDiv(imgStart, scale))

\* lines 37-38: Math.max(0, -imgLeft / scale).
ViewportOrigin(imgStart, scale) == RMax(Num(0), RDiv(RNeg(imgStart), scale))

\* An extent that is not clamped to the image.
ViewportExtent_Unclamped(imageExtent, origin, containerExtent, scale) ==
    RDiv(containerExtent, scale)

\* lines 39-40: Math.min(imageWidth - viewportX, containerWidth / scale).
ViewportExtent(imageExtent, origin, containerExtent, scale) ==
    RMin(RSub(imageExtent, origin), RDiv(containerExtent, scale))

calculateViewport(containerWidth, containerHeight, imageWidth, imageHeight, zoom, positionX, positionY) ==
    LET scale          == RDiv(zoom, Num(100))
        displayWidth   == RMul(imageWidth, scale)
        displayHeight  == RMul(imageHeight, scale)
        imgLeft        == RAdd(RDiv(RSub(containerWidth, displayWidth), Num(2)),
                               positionX)
        imgTop         == RAdd(RDiv(RSub(containerHeight, displayHeight), Num(2)),
                               positionY)
        viewportX      == ViewportOrigin(imgLeft, scale)
        viewportY      == ViewportOrigin(imgTop, scale)
        viewportWidth  == ViewportExtent(imageWidth, viewportX, containerWidth, scale)
        viewportHeight == ViewportExtent(imageHeight, viewportY, containerHeight, scale)
    IN  [x |-> viewportX, y |-> viewportY,
         width |-> viewportWidth, height |-> viewportHeight, scale |-> scale]

(***************************************************************************)
(* calculateRenderRegion.                                                  *)
(***************************************************************************)
\* A default bufferRatio of 0.1.
DefaultBufferRatio_Tenth == Rat(1, 10)

\* line 55: the default bufferRatio, 0.2.
DefaultBufferRatio == Rat(1, 5)

\* lines 60-61: Math.max(0, Math.floor(viewport.x - bufferX)).
SourceOrigin(origin, buffer) == RMax(Num(0), RFloor(RSub(origin, buffer)))

\* A source extent that is not cut at the image's edge.
SourceExtent_Unclamped(imageExtent, source, extent, buffer) ==
    RCeil(RAdd(extent, RMul(buffer, Num(2))))

\* lines 62-69: Math.min(imageWidth - sourceX, Math.ceil(viewport.width + bufferX * 2)).
SourceExtent(imageExtent, source, extent, buffer) ==
    RMin(RSub(imageExtent, source), RCeil(RAdd(extent, RMul(buffer, Num(2)))))

calculateRenderRegion(viewport, imageWidth, imageHeight, bufferRatio) ==
    LET bufferX      == RMul(viewport.width, bufferRatio)
        bufferY      == RMul(viewport.height, bufferRatio)
        sourceX      == SourceOrigin(viewport.x, bufferX)
        sourceY      == SourceOrigin(viewport.y, bufferY)
        sourceWidth  == SourceExtent(imageWidth, sourceX, viewport.width, bufferX)
        sourceHeight == SourceExtent(imageHeight, sourceY, viewport.height, bufferY)
    IN  [sourceX |-> sourceX, sourceY |-> sourceY,
         sourceWidth |-> sourceWidth, sourceHeight |-> sourceHeight,
         destX |-> Num(0), destY |-> Num(0),
         destWidth |-> sourceWidth, destHeight |-> sourceHeight]

(***************************************************************************)
(* ViewportRenderer.                                                       *)
(***************************************************************************)
\* A shouldRedraw that forgets the dirty mark.
MustRedraw_IgnoresDirty(last, dirty) == last = JsNull

\* shouldRedraw, line 115: `!this.lastViewport || this.needsFullRedraw`.
MustRedraw(last, dirty) == last = JsNull \/ dirty

\* A comparison that leaves out the vertical displacement.
ViewportMoved_NoDeltaY(last, newViewport, threshold) ==
    LET deltaX      == RAbs(RSub(newViewport.x, last.x))
        deltaWidth  == RAbs(RSub(newViewport.width, last.width))
        deltaHeight == RAbs(RSub(newViewport.height, last.height))
        deltaScale  == RAbs(RSub(newViewport.scale, last.scale))
    IN  \/ RGt(deltaX, RMul(newViewport.width, threshold))
        \/ RGt(deltaWidth, RMul(newViewport.width, threshold))
        \/ RGt(deltaHeight, RMul(newViewport.height, threshold))
        \/ RGt(deltaScale, Rat(1, 100))

\* shouldRedraw, lines 119-131: the comparison with the last viewport.
ViewportMoved(last, newViewport, threshold) ==
    LET deltaX      == RAbs(RSub(newViewport.x, last.x))
        deltaY      == RAbs(RSub(newViewport.y, last.y))
        deltaWidth  == RAbs(RSub(newViewport.width, last.width))
        deltaHeight == RAbs(RSub(newViewport.height, last.height))
        deltaScale  == RAbs(RSub(newViewport.scale, last.scale))
    IN  \/ RGt(deltaX, RMul(newViewport.width, threshold))
        \/ RGt(deltaY, RMul(newViewport.height, threshold))
        \/ RGt(deltaWidth, RMul(newViewport.width, threshold))
        \/ RGt(deltaHeight, RMul(newViewport.height, threshold))
        \/ RGt(deltaScale, Rat(1, 100))

shouldRedraw(last, dirty, newViewport, threshold) ==
    IF MustRedraw(last, dirty) THEN TRUE ELSE ViewportMoved(last, newViewport, threshold)

\* The calls of calculateViewport whose results the host hands to the
\* scheduler: a 40x40 image in a 20x20 container panned by a few pixels and
\* zoomed to 100, 100.5 and 102 percent, the same image panned out of the
\* container, and a 10x10 image that is fully visible.
SchedArgs ==
    {<<20, 20, 40, 40, z, px, py>> : z \in {Num(100), Rat(201, 2), Num(102)},
                                     px \in {0, -1, -2, -3}, py \in {0, -3}}
    \cup {<<20, 20, 40, 40, Num(100), -40, 0>>, <<20, 20, 10, 10, Num(100), 0, 0>>}

\* The viewports the scheduler is called with, each with its image's size.
SchedInputs ==
    {[viewport |-> calculateViewport(Num(a[1]), Num(a[2]), Num(a[3]), Num(a[4]),
                                     a[5], Num(a[6]), Num(a[7])),
      imageWidth |-> Num(a[3]), imageHeight |-> Num(a[4])] : a \in SchedArgs}

\* The thresholds shouldRedraw is called with: the default 0.1, 0 and 0.25.
DefaultThreshold == Rat(1, 10)
Thresholds == {DefaultThreshold, Num(0), Rat(1, 4)}

SchedInit ==
    /\ lastViewport = JsNull
    /\ renderRegion = JsNull
    /\ needsFullRedraw = TRUE
    /\ schedCall = [op |-> "new"]
    /\ lastUpdate = JsNull

\* The call follows a shouldRedraw with the same threshold that answered
\* false for a viewport from which newViewport is displaced by no more than
\* the threshold.
Drift(call, newViewport, threshold) ==
    /\ call.op = "shouldRedraw"
    /\ call.ret = JsBool(FALSE)
    /\ call.threshold = threshold
    /\ ~ViewportMoved(call.viewport, newViewport, threshold)

\* A shouldRedraw that clears the dirty mark.
ShouldRedraw_ClearsDirty(newViewport, threshold) ==
    /\ schedCall' = [op |-> "shouldRedraw", viewport |-> newViewport,
                     threshold |-> threshold,
                     ret |-> JsBool(shouldRedraw(lastViewport, needsFullRedraw,
                                                 newViewport, threshold)),
                     drift |-> Drift(schedCall, newViewport, threshold)]
    /\ needsFullRedraw' = FALSE
    /\ UNCHANGED <<lastViewport, renderRegion, lastUpdate>>
    /\ UNCHANGED <<cacheVars, geomVars, asyncVars>>

\* A shouldRedraw that remembers the viewport it was asked about.
ShouldRedraw_StoresViewport(newViewport, threshold) ==
    /\ schedCall' = [op |-> "shouldRedraw", viewport |-> newViewport,
                     threshold |-> threshold,
                     ret |-> JsBool(shouldRedraw(lastViewport, needsFullRedraw,
                                                 newViewport, threshold)),
                     drift |-> Drift(schedCall, newViewport, threshold)]
    /\ lastViewport' = IF lastViewport = JsNull THEN JsNull ELSE newViewport
    /\ UNCHANGED <<renderRegion, needsFullRedraw, lastUpdate>>
    /\ UNCHANGED <<cacheVars, geomVars, asyncVars>>

\* drift records whether the call continues a run of small pans.
ShouldRedraw(newViewport, threshold) ==
    /\ schedCall' = [op |-> "shouldRedraw", viewport |-> newViewport,
                     threshold |-> threshold,
                     ret |-> JsBool(shouldRedraw(lastViewport, needsFullRedraw,
                                                 newViewport, threshold)),
                     drift |-> Drift(schedCall, newViewport, threshold)]
    /\ UNCHANGED <<lastViewport, renderRegion, needsFullRedraw, lastUpdate>>
    /\ UNCHANGED <<cacheVars, geomVars, asyncVars>>

UpdateViewport(viewport, imageWidth, imageHeight) ==
    /\ lastViewport' = viewport
    /\ renderRegion' = calculateRenderRegion(viewport, imageWidth, imageHeight,
                                             DefaultBufferRatio)
    /\ needsFullRedraw' = FALSE
    /\ schedCall' = [op |-> "updateViewport", viewport |-> viewport,
                     imageWidth |-> imageWidth, imageHeight |-> imageHeight,
                     ret |-> JsUndefined]
    /\ lastUpdate' = [viewport |-> viewport, imageWidth |-> imageWidth,
                      imageHeight |-> imageHeight]
    /\ UNCHANGED <<cacheVars, geomVars, asyncVars>>

GetRenderRegion ==
    /\ schedCall' = [op |-> "getRenderRegion", ret |-> renderRegion]
    /\ UNCHANGED <<lastViewport, renderRegion, needsFullRedraw, lastUpdate>>
    /\ UNCHANGED <<cacheVars, geomVars, asyncVars>>

\* A markDirty that also drops the cached region.
MarkDirty_DropsRegion ==
    /\ needsFullRedraw' = TRUE
    /\ renderRegion' = JsNull
    /\ schedCall' = [op |-> "markDirty", ret |-> JsUndefined]
    /\ UNCHANGED <<lastViewport, lastUpdate>>
    /\ UNCHANGED <<cacheVars, geomVars, asyncVars>>

MarkDirty ==
    /\ needsFullRedraw' = TRUE
    /\ schedCall' = [op |-> "markDirty", ret |-> JsUndefined]
    /\ UNCHANGED <<lastViewport, renderRegion, lastUpdate>>
    /\ UNCHANGED <<cacheVars, geomVars, asyncVars>>

\* A reset that keeps the cached region.
Reset_KeepsRegion ==
    /\ lastViewport' = JsNull
    /\ needsFullRedraw' = TRUE
    /\ schedCall' = [op |-> "reset", ret |-> JsUndefined,
                     wasUpdated |-> lastUpdate # JsNull]
    /\ lastUpdate' = JsNull
    /\ UNCHANGED renderRegion
    /\ UNCHANGED <<cacheVars, geomVars, asyncVars>>

\* A reset that leaves the dirty flag as it is.
Reset_KeepsFlag ==
    /\ lastViewport' = JsNull
    /\ renderRegion' = JsNull
    /\ schedCall' = [op |-> "reset", ret |-> JsUndefined,
                     wasUpdated |-> lastUpdate # JsNull]
    /\ lastUpdate' = JsNull
    /\ UNCHANGED needsFullRedraw
    /\ UNCHANGED <<cacheVars, geomVars, asyncVars>>

Reset ==
    /\ lastViewport' = JsNull
    /\ renderRegion' = JsNull
    /\ needsFullRedraw' = TRUE
    /\ schedCall' = [op |-> "reset", ret |-> JsUndefined,
                     wasUpdated |-> lastUpdate # JsNull]
    /\ lastUpdate' = JsNull
    /\ UNCHANGED <<cacheVars, geomVars, asyncVars>>

SchedNext ==
    \/ \E i \in SchedInputs, threshold \in Thresholds :
          ShouldRedraw(i.viewport, threshold)
    \/ \E i \in SchedInputs : UpdateViewport(i.viewport, i.imageWidth, i.imageHeight)
    \/ GetRenderRegion
    \/ MarkDirty
    \/ Reset

(***************************************************************************)
(* isPointInViewport and filterOpsInViewport.                              *)
(***************************************************************************)
\* A membership test whose bounds are exclusive.
isPointInViewport_Exclusive(x, y, viewport, margin) ==
    /\ RGt(x, RSub(viewport.x, margin))
    /\ RLt(x, RAdd(RAdd(viewport.x, viewport.width), margin))
    /\ RGt(y, RSub(viewport.y, margin))
    /\ RLt(y, RAdd(RAdd(viewport.y, viewport.height), margin))

\* lines 83-95.
isPointInViewport(x, y, viewport, margin) ==
    /\ RGe(x, RSub(viewport.x, margin))
    /\ RLe(x, RAdd(RAdd(viewport.x, viewport.width), margin))
    /\ RGe(y, RSub(viewport.y, margin))
    /\ RLe(y, RAdd(RAdd(viewport.y, viewport.height), margin))

\* Array.prototype.filter: the elements that pass the test, in their order.
RECURSIVE Filter(_, _, _)
Filter(ops, viewport, margin) ==
    IF ops = <<>> THEN <<>>
    ELSE LET op == Head(ops)
             rest == Filter(Tail(ops), viewport, margin)
         IN  IF isPointInViewport(op.x, op.y, viewport, margin)
             THEN <<op>> \o rest
             ELSE rest

\* line 100: the default toolSize, 0.
DefaultToolSize == Num(0)

\* lines 97-104.
filterOpsInViewport(ops, viewport, toolSize) ==
    LET margin == RMul(toolSize, Num(2))
    IN  Filter(ops, viewport, margin)

(***************************************************************************)
(* Calls of the pure geometry functions.                                   *)
(***************************************************************************)
Dims == 1..MaxDim
Pans == (-MaxPan)..MaxPan

GeomArgs ==
    [containerWidth : Dims, containerHeight : Dims,
     imageWidth : Dims, imageHeight : Dims,
     zoom : Zooms, positionX : Pans, positionY : Pans]

GeomIdle ==
    /\ geomArgs = JsUndefined
    /\ geomResult = JsUndefined

\* The call calculateViewport(800, 600, 4096, 4096, 100, 0, 0): an image far
\* larger than the container, centred, not panned.
LargeImageArgs ==
    [containerWidth |-> 800, containerHeight |-> 600,
     imageWidth |-> 4096, imageHeight |-> 4096,
     zoom |-> 100, positionX |-> 0, positionY |-> 0]

GeomInit ==
    /\ geomArgs \in GeomArgs \cup {LargeImageArgs}
    /\ geomResult = JsUndefined

\* Calls of calculateViewport with degenerate geometry: a zoom <= 0, or a
\* container or image dimension <= 0.
DegenerateArgs ==
    {a \in [containerWidth : {-1, 0, 4}, containerHeight : {-1, 0, 4},
            imageWidth : {-1, 0, 2}, imageHeight : {-1, 0, 2},
            zoom : {-100, 0, 100}, positionX : {-2, 0, 1}, positionY : {-2, 0, 1}] :
        \/ a.zoom <= 0
        \/ a.containerWidth <= 0 \/ a.containerHeight <= 0
        \/ a.imageWidth <= 0 \/ a.imageHeight <= 0}

DegenerateInit ==
    /\ geomArgs \in DegenerateArgs
    /\ geomResult = JsUndefined

\* The non-negative multiples of 1/2 up to n.
Halves(n) == {Rat(k, 2) : k \in 0..(2 * n)}

\* The extents [origin, origin + extent] that lie within [0, n].
Spans(n) == {s \in Halves(n) \X Halves(n) : RLe(RAdd(s[1], s[2]), Num(n))}

\* Viewports within an imageWidth x imageHeight image.
ValidViewports(imageWidth, imageHeight) ==
    {[x |-> h[1], y |-> v[1], width |-> h[2], height |-> v[2], scale |-> Num(1)] :
        h \in Spans(imageWidth), v \in Spans(imageHeight)}

\* The bufferRatio argument; undefined stands for an omitted argument.
BufferRatios == {JsUndefined, Num(0), Rat(1, 5), Rat(1, 2), Num(1)}

RegionArgs ==
    UNION {[viewport : ValidViewports(w, h), imageWidth : {w}, imageHeight : {h},
            bufferRatio : BufferRatios] : w \in Dims, h \in Dims}

\* The call calculateRenderRegion({x: 0, y: 0, width: 800, height: 600,
\* scale: 1}, 4096, 4096).
LargeRegionArgs ==
    [viewport |-> [x |-> Num(0), y |-> Num(0), width |-> Num(800),
                   height |-> Num(600), scale |-> Num(1)],
     imageWidth |-> 4096, imageHeight |-> 4096, bufferRatio |-> JsUndefined]

RegionInit ==
    /\ geomArgs \in RegionArgs \cup {LargeRegionArgs}
    /\ geomResult = JsUndefined

\* The drawing operations: points with integer coordinates.
Coords == (-1)..MaxCoord

Ops == [x : {Num(c) : c \in Coords}, y : {Num(c) : c \in Coords}]

OpLists == UNION {[1..n -> Ops] : n \in 0..MaxOps}

CullViewports ==
    {[x |-> Num(1), y |-> Num(1), width |-> Num(e), height |-> Num(e),
      scale |-> Num(1)] : e \in {0, 1}}

\* A JavaScript array as a value.
JsArray(items) == [t |-> "array", items |-> items]

\* The toolSize argument; undefined stands for an omitted argument.
ToolSizes == {JsUndefined, Rat(1, 2)}

CullArgs == [ops : OpLists, viewport : CullViewports, toolSize : ToolSizes]

CullInit ==
    /\ geomArgs \in CullArgs
    /\ geomResult = JsUndefined

CalculateRenderRegion ==
    /\ geomArgs # JsUndefined
    /\ geomResult = JsUndefined
    /\ geomResult' = calculateRenderRegion(
            geomArgs.viewport, Num(geomArgs.imageWidth), Num(geomArgs.imageHeight),
            IF geomArgs.bufferRatio = JsUndefined
            THEN DefaultBufferRatio ELSE geomArgs.bufferRatio)
    /\ UNCHANGED <<geomArgs, cacheVars, schedVars, asyncVars>>

FilterOpsInViewport ==
    /\ geomArgs # JsUndefined
    /\ geomResult = JsUndefined
    /\ geomResult' = JsArray(filterOpsInViewport(
            geomArgs.ops, geomArgs.viewport,
            IF geomArgs.toolSize = JsUndefined
            THEN DefaultToolSize ELSE geomArgs.toolSize))
    /\ UNCHANGED <<geomArgs, cacheVars, schedVars, asyncVars>>

CalculateViewport ==
    /\ geomArgs # JsUndefined
    /\ geomResult = JsUndefined
    /\ geomResult' = calculateViewport(
            Num(geomArgs.containerWidth), Num(geomArgs.containerHeight),
            Num(geomArgs.imageWidth), Num(geomArgs.imageHeight),
            Num(geomArgs.zoom), Num(geomArgs.positionX), Num(geomArgs.positionY))
    /\ UNCHANGED <<geomArgs, cacheVars, schedVars, asyncVars>>

GeomNext == CalculateViewport

RegionNext == CalculateRenderRegion

CullNext == FilterOpsInViewport

(***************************************************************************)
(* The browser's timers and animation frames, and the wrappers debounce,   *)
(* throttle and rafThrottle (src/unnamed/part_000).  The n-th call of a     *)
(* wrapped function passes the argument n, so that the log of func's        *)
(* invocations tells which call each one serves.  func returns normally and *)
(* does not call the wrapper itself.                                        *)
(***************************************************************************)
LoopInit ==
    /\ timerQueue = {}
    /\ frameQueue = {}
    /\ nextHandle = 1

WrapInit ==
    /\ inThrottle = FALSE
    /\ rafId = JsNull
    /\ timeout = JsNull
    /\ callLog = <<>>
    /\ funcLog = <<>>
    /\ fired = 0

\* clearTimeout / cancelAnimationFrame: the queue without the task of the
\* handle; nothing happens when no pending task has it.
Cancel(queue, handle) == {task \in queue : JsNum(task.id) # handle}

\* The pending task the browser runs next: the one requested first.
IsNext(queue, task) == task \in queue /\ \A other \in queue : task.id <= other.id

\* func(...args), recorded.
Invoke(arg) == Append(funcLog, [arg |-> arg, fired |-> fired, calls |-> Len(callLog)])

\* A call of the wrapper, recorded.
Called(arg, open) == Append(callLog, [arg |-> arg, open |-> open])

\* A throttle whose timer delivers the last call it dropped.
ThrottleTimer_Trailing ==
    \E task \in timerQueue :
      /\ IsNext(timerQueue, task)
      /\ timerQueue' = timerQueue \ {task}
      /\ inThrottle' = FALSE
      /\ fired' = fired + 1
      /\ funcLog' = IF Last(callLog).open THEN Invoke(Last(callLog).arg) ELSE funcLog
      /\ UNCHANGED <<frameQueue, nextHandle, rafId, timeout, callLog>>
      /\ UNCHANGED <<cacheVars, schedVars, geomVars, monVars>>

\* throttle, lines 26-34: executedFunction.
ThrottleCall ==
    /\ Len(callLog) < MaxCalls
    /\ LET arg == Len(callLog) + 1
       IN  /\ callLog' = Called(arg, inThrottle)
           /\ IF ~inThrottle
              THEN /\ funcLog' = Invoke(arg)
                   /\ inThrottle' = TRUE
                   /\ timerQueue' = timerQueue \cup {[id |-> nextHandle, fn |-> "reset"]}
                   /\ nextHandle' = nextHandle + 1
              ELSE UNCHANGED <<funcLog, inThrottle, timerQueue, nextHandle>>
    /\ UNCHANGED <<frameQueue, rafId, timeout, fired>>
    /\ UNCHANGED <<cacheVars, schedVars, geomVars, monVars>>

\* throttle, lines 30-32: the timer's callback.
ThrottleTimer ==
    \E task \in timerQueue :
      /\ IsNext(timerQueue, task)
      /\ timerQueue' = timerQueue \ {task}
      /\ inThrottle' = FALSE
      /\ fired' = fired + 1
      /\ UNCHANGED <<frameQueue, nextHandle, rafId, timeout, callLog, funcLog>>
      /\ UNCHANGED <<cacheVars, schedVars, geomVars, monVars>>

ThrottleNext == ThrottleCall \/ ThrottleTimer

\* rafThrottle, lines 42-50: executedFunction.
RafThrottleCall ==
    /\ Len(callLog) < MaxCalls
    /\ LET arg == Len(callLog) + 1
       IN  /\ callLog' = Called(arg, rafId # JsNull)
           /\ IF rafId # JsNull
              THEN UNCHANGED <<rafId, frameQueue, nextHandle>>
              ELSE /\ rafId' = JsNum(nextHandle)
                   /\ frameQueue' = frameQueue \cup {[id |-> nextHandle, args |-> arg]}
                   /\ nextHandle' = nextHandle + 1
    /\ UNCHANGED <<timerQueue, inThrottle, timeout, funcLog, fired>>
    /\ UNCHANGED <<cacheVars, schedVars, geomVars, monVars>>

\* A frame callback that leaves rafId set.
RafThrottleFrame_KeepsId ==
    \E task \in frameQueue :
      /\ IsNext(frameQueue, task)
      /\ frameQueue' = frameQueue \ {task}
      /\ funcLog' = Invoke(task.args)
      /\ fired' = fired + 1
      /\ UNCHANGED <<timerQueue, nextHandle, inThrottle, rafId, timeout, callLog>>
      /\ UNCHANGED <<cacheVars, schedVars, geomVars, monVars>>

\* rafThrottle, lines 46-49: the frame's callback.
RafThrottleFrame ==
    \E task \in frameQueue :
      /\ IsNext(frameQueue, task)
      /\ frameQueue' = frameQueue \ {task}
      /\ funcLog' = Invoke(task.args)
      /\ rafId' = JsNull
      /\ fired' = fired + 1
      /\ UNCHANGED <<timerQueue, nextHandle, inThrottle, timeout, callLog>>
      /\ UNCHANGED <<cacheVars, schedVars, geomVars, monVars>>

RafThrottleNext == RafThrottleCall \/ RafThrottleFrame

\* A debounce that does not clear the pending timer.
DebounceCall_NoClear ==
    /\ Len(callLog) < MaxCalls
    /\ LET arg == Len(callLog) + 1
       IN  /\ callLog' = Called(arg, timeout # JsNull)
           /\ timerQueue' = timerQueue \cup {[id |-> nextHandle, args |-> arg]}
           /\ timeout' = JsNum(nextHandle)
           /\ nextHandle' = nextHandle + 1
    /\ UNCHANGED <<frameQueue, inThrottle, rafId, funcLog, fired>>
    /\ UNCHANGED <<cacheVars, schedVars, geomVars, monVars>>

\* debounce, lines 7-16: executedFunction.
DebounceCall ==
    /\ Len(callLog) < MaxCalls
    /\ LET arg     == Len(callLog) + 1
           cleared == IF timeout # JsNull THEN Cancel(timerQueue, timeout) ELSE timerQueue
       IN  /\ callLog' = Called(arg, timeout # JsNull)
           /\ timerQueue' = cleared \cup {[id |-> nextHandle, args |-> arg]}
           /\ timeout' = JsNum(nextHandle)
           /\ nextHandle' = nextHandle + 1
    /\ UNCHANGED <<frameQueue, inThrottle, rafId, funcLog, fired>>
    /\ UNCHANGED <<cacheVars, schedVars, geomVars, monVars>>

\* debounce, lines 8-11: later, the timer's callback.
DebounceTimer ==
    \E task \in timerQueue :
      /\ IsNext(timerQueue, task)
      /\ timerQueue' = timerQueue \ {task}
      /\ timeout' = JsNull
      /\ funcLog' = Invoke(task.args)
      /\ fired' = fired + 1
      /\ UNCHANGED <<frameQueue, nextHandle, inThrottle, rafId, callLog>>
      /\ UNCHANGED <<cacheVars, schedVars, geomVars, monVars>>

DebounceNext == DebounceCall \/ DebounceTimer

(***************************************************************************)
(* FPSMonitor (src/unnamed/part_000) and GPUMonitor (image-cache.ts).  The  *)
(* clock is not modelled: a sample is the token "fps", and whether a second *)
(* has elapsed in GPUMonitor's monitor is a choice.  The callback given to  *)
(* start is one of: none; "observe", which only reads the value; "stop",    *)
(* which calls the monitor's stop(); "restart", which calls stop() and then *)
(* start() with an observing callback (while the bound on starts allows).   *)
(***************************************************************************)
Callbacks == {"none", "observe", "stop", "restart"}

MonInit ==
    /\ fpsFrames = <<>>
    /\ fpsRafId = JsNull
    /\ fpsStopped = TRUE
    /\ isMonitoring = FALSE
    /\ animationId = JsNull
    /\ monStarts = 0

\* FPSMonitor.measure, lines 171-175: push the sample, drop the oldest one
\* when more than FrameBufferSize are held.
PushSample(samples) ==
    LET pushed == Append(samples, "fps")
    IN  IF Len(pushed) > FrameBufferSize THEN Tail(pushed) ELSE pushed

\* FPSMonitor.start, lines 164-186.
FpsStart(callback) ==
    /\ monStarts < MaxStarts
    /\ nextHandle <= MaxHandle
    /\ monStarts' = monStarts + 1
    /\ fpsRafId' = JsNum(nextHandle)
    /\ frameQueue' = frameQueue \cup {[id |-> nextHandle, callback |-> callback]}
    /\ nextHandle' = nextHandle + 1
    /\ fpsStopped' = FALSE
    /\ UNCHANGED <<fpsFrames, isMonitoring, animationId, timerQueue, wrapVars>>
    /\ UNCHANGED <<cacheVars, schedVars, geomVars>>

\* FPSMonitor.stop, lines 188-193.
FpsStop ==
    /\ frameQueue' = IF fpsRafId # JsNull THEN Cancel(frameQueue, fpsRafId) ELSE frameQueue
    /\ fpsRafId' = JsNull
    /\ fpsStopped' = TRUE
    /\ UNCHANGED <<fpsFrames, isMonitoring, animationId, monStarts, timerQueue, nextHandle, wrapVars>>
    /\ UNCHANGED <<cacheVars, schedVars, geomVars>>

\* FPSMonitor.start, lines 165-183: measure, the frame's callback.  The
\* callback runs before the next frame is requested.
FpsMeasure ==
    \E task \in frameQueue :
      /\ IsNext(frameQueue, task)
      /\ nextHandle <= MaxHandle
      /\ LET stops     == task.callback \in {"stop", "restart"}
             restarts  == task.callback = "restart" /\ monStarts < MaxStarts
             running   == frameQueue \ {task}
             \* callback: stop()
             afterStop == IF stops /\ fpsRafId # JsNull
                          THEN Cancel(running, fpsRafId) ELSE running
             \* callback: start(observer)
             afterStart == IF restarts
                           THEN afterStop \cup {[id |-> nextHandle, callback |-> "observe"]}
                           ELSE afterStop
             handle    == IF restarts THEN nextHandle + 1 ELSE nextHandle
         IN  /\ fpsFrames' = PushSample(fpsFrames)
             /\ monStarts' = IF restarts THEN monStarts + 1 ELSE monStarts
             /\ fpsStopped' = IF restarts THEN FALSE
                              ELSE IF stops THEN TRUE ELSE fpsStopped
             \* line 182: this.rafId = requestAnimationFrame(measure)
             /\ frameQueue' = afterStart \cup {[id |-> handle, callback |-> task.callback]}
             /\ fpsRafId' = JsNum(handle)
             /\ nextHandle' = handle + 1
      /\ UNCHANGED <<isMonitoring, animationId, timerQueue, wrapVars>>
      /\ UNCHANGED <<cacheVars, schedVars, geomVars>>

FpsNext ==
    \/ \E callback \in Callbacks : FpsStart(callback)
    \/ FpsStop
    \/ FpsMeasure

\* GPUMonitor.start, lines 236-266.
GpuStart(callback) ==
    /\ monStarts < MaxStarts
    /\ nextHandle <= MaxHandle
    /\ monStarts' = monStarts + 1
    /\ IF isMonitoring
       THEN UNCHANGED <<isMonitoring, animationId, frameQueue, nextHandle>>
       ELSE /\ isMonitoring' = TRUE
            /\ animationId' = JsNum(nextHandle)
            /\ frameQueue' = frameQueue \cup {[id |-> nextHandle, callback |-> callback]}
            /\ nextHandle' = nextHandle + 1
    /\ UNCHANGED <<fpsFrames, fpsRafId, fpsStopped, timerQueue, wrapVars>>
    /\ UNCHANGED <<cacheVars, schedVars, geomVars>>

\* GPUMonitor.stop, lines 268-274.
GpuStop ==
    /\ isMonitoring' = FALSE
    /\ frameQueue' = IF animationId # JsNull
                     THEN Cancel(frameQueue, animationId) ELSE frameQueue
    /\ animationId' = JsNull
    /\ UNCHANGED <<fpsFrames, fpsRafId, fpsStopped, monStarts, timerQueue, nextHandle, wrapVars>>
    /\ UNCHANGED <<cacheVars, schedVars, geomVars>>

\* GPUMonitor.start, lines 243-263: monitor, the frame's callback.
\* secondElapsed is the outcome of `elapsed >= 1000`; the callback runs only
\* then, and before the next frame is requested.
GpuMonitor(secondElapsed) ==
    \E task \in frameQueue :
      /\ IsNext(frameQueue, task)
      /\ nextHandle <= MaxHandle
      /\ IF ~isMonitoring
         THEN /\ frameQueue' = frameQueue \ {task}
              /\ UNCHANGED <<isMonitoring, animationId, nextHandle, monStarts>>
         ELSE LET called     == secondElapsed /\ task.callback # "none"
                  stops      == called /\ task.callback \in {"stop", "restart"}
                  restarts   == called /\ task.callback = "restart" /\ monStarts < MaxStarts
                  running    == frameQueue \ {task}
                  \* callback: stop()
                  afterStop  == IF stops /\ animationId # JsNull
                                THEN Cancel(running, animationId) ELSE running
                  \* callback: start(observer), isMonitoring being false
                  afterStart == IF restarts
                                THEN afterStop \cup {[id |-> nextHandle, callback |-> "observe"]}
                                ELSE afterStop
                  handle     == IF restarts THEN nextHandle + 1 ELSE nextHandle
              IN  /\ isMonitoring' = IF restarts THEN TRUE
                                     ELSE IF stops THEN FALSE ELSE isMonitoring
                  /\ monStarts' = IF restarts THEN monStarts + 1 ELSE monStarts
                  \* line 262: this.animationId = requestAnimationFrame(monitor)
                  /\ frameQueue' = afterStart \cup {[id |-> handle, callback |-> task.callback]}
                  /\ animationId' = JsNum(handle)
                  /\ nextHandle' = handle + 1
      /\ UNCHANGED <<fpsFrames, fpsRafId, fpsStopped, timerQueue, wrapVars>>
      /\ UNCHANGED <<cacheVars, schedVars, geomVars>>

GpuNext ==
    \/ \E callback \in Callbacks : GpuStart(callback)
    \/ GpuStop
    \/ \E secondElapsed \in BOOLEAN : GpuMonitor(secondElapsed)

AsyncInit == LoopInit /\ WrapInit /\ MonInit

(***************************************************************************)
(* Specifications: one per component; the other components stay idle.      *)
(***************************************************************************)
CacheSpecInit == CacheInit /\ SchedInit /\ GeomIdle /\ AsyncInit
SpecCache == CacheSpecInit /\ [][CacheNext]_vars

SchedSpecInit == CacheInit /\ SchedInit /\ GeomIdle /\ AsyncInit
SpecScheduler == SchedSpecInit /\ [][SchedNext]_vars

GeomSpecInit == CacheInit /\ SchedInit /\ GeomInit /\ AsyncInit
SpecGeometry == GeomSpecInit /\ [][GeomNext]_vars

RegionSpecInit == CacheInit /\ SchedInit /\ RegionInit /\ AsyncInit
SpecRegion == RegionSpecInit /\ [][RegionNext]_vars

CullSpecInit == CacheInit /\ SchedInit /\ CullInit /\ AsyncInit
SpecCull == CullSpecInit /\ [][CullNext]_vars

ThrottleSpecInit == CacheInit /\ SchedInit /\ GeomIdle /\ AsyncInit
SpecThrottle == ThrottleSpecInit /\ [][ThrottleNext]_vars

RafThrottleSpecInit == CacheInit /\ SchedInit /\ GeomIdle /\ AsyncInit
SpecRafThrottle == RafThrottleSpecInit /\ [][RafThrottleNext]_vars

\* A pending timer expires: the weak fairness of the timer's callback.
DebounceSpecInit == CacheInit /\ SchedInit /\ GeomIdle /\ AsyncInit
SpecDebounce == DebounceSpecInit /\ [][DebounceNext]_vars /\ WF_vars(DebounceTimer)

FpsSpecInit == CacheInit /\ SchedInit /\ GeomIdle /\ AsyncInit
SpecFpsMonitor == FpsSpecInit /\ [][FpsNext]_vars

GpuSpecInit == CacheInit /\ SchedInit /\ GeomIdle /\ AsyncInit
SpecGpuMonitor == GpuSpecInit /\ [][GpuNext]_vars

DegenerateSpecInit == CacheInit /\ SchedInit /\ DegenerateInit /\ AsyncInit
SpecDegenerate == DegenerateSpecInit /\ [][GeomNext]_vars

(***************************************************************************)
(* Properties of ImageCacheManager, under SpecCache.                       *)
(***************************************************************************)
getSize == Cardinality(DOMAIN cache)

\* C1: in every reachable state the number of stored keys, getSize(), is at
\* most maxSize.
C1_SizeNeverExceedsMaxSize == getSize <= maxSize

\* C2: a set of a key that is not stored, made while the cache holds maxSize
\* entries, removes exactly the stored key whose last touch (a set, or a get
\* that found it) is the oldest, and no other key.
C2_StrictLruEviction ==
    [][(/\ cacheCall'.op = "set"
        /\ ~cacheCall'.existed
        /\ Cardinality(DOMAIN cache) = maxSize)
       => DOMAIN cache' = (DOMAIN cache \ {Head(recency)}) \cup {cacheCall'.key}]_vars

\* C3: a get of a stored key returns its value and moves the key to the tail
\* of the access order; a get of an absent key returns undefined and changes
\* neither the store nor the access order.
C3_GetReturnsAndPromotes ==
    [][cacheCall'.op = "get"
       => IF cacheCall'.key \in DOMAIN cache
          THEN /\ cacheCall'.ret = JsStr(cache[cacheCall'.key])
               /\ cache' = cache
               /\ Len(accessOrder') > 0
               /\ Last(accessOrder') = cacheCall'.key
          ELSE /\ cacheCall'.ret = JsUndefined
               /\ cache' = cache
               /\ accessOrder' = accessOrder]_vars

\* C4: a set of a key that is already stored evicts nothing, also at
\* capacity: the stored keys (and so getSize()) are unchanged, every other
\* key keeps its value, the key's value is the new value and the key is at
\* the tail of the access order.
C4_SetExistingKeyEvictsNothing ==
    [][(cacheCall'.op = "set" /\ cacheCall'.key \in DOMAIN cache)
       => /\ DOMAIN cache' = DOMAIN cache
          /\ Cardinality(DOMAIN cache') = Cardinality(DOMAIN cache)
          /\ cache'[cacheCall'.key] = cacheCall'.value
          /\ \A k \in DOMAIN cache \ {cacheCall'.key} : cache'[k] = cache[k]
          /\ Last(accessOrder') = cacheCall'.key]_vars

\* A set has overwritten a stored key, not the oldest one, in a full cache.
C4_Witness ==
    /\ cacheCall.op = "set"
    /\ cacheCall.existed
    /\ getSize = maxSize
    /\ Len(accessOrder) = maxSize
    /\ Last(accessOrder) = cacheCall.key
    /\ cache[cacheCall.key] = cacheCall.value

\* C15: clear() destroys the whole cache: afterwards getSize() is 0, has(k)
\* is false and get(k) is undefined for every key, the access order is empty,
\* and the object is in the state of a newly created cache, so that a later
\* set or get behaves as on a new cache.
C15_ClearGivesNewCache ==
    [][/\ cacheCall'.op = "clear"
          => /\ cache' = EmptyMap
             /\ accessOrder' = <<>>
             /\ getSize' = 0
             /\ \A k \in Keys : k \notin DOMAIN cache' /\ MapGet(cache', k) = JsUndefined
       /\ cacheCall.op = "clear"
          => /\ cacheCall'.op = "getSize" => cacheCall'.ret = JsNum(0)
             /\ cacheCall'.op = "has" => cacheCall'.ret = JsBool(FALSE)
             /\ cacheCall'.op = "get"
                => cacheCall'.ret = JsUndefined /\ accessOrder' = <<>>
             /\ cacheCall'.op = "set"
                => /\ cache' = MapSet(EmptyMap, cacheCall'.key, cacheCall'.value)
                   /\ accessOrder' = <<cacheCall'.key>>]_vars

\* A clear has just removed maxSize entries.
C15_Witness ==
    /\ cacheCall.op = "clear"
    /\ cacheCall.cleared = maxSize
    /\ cache = EmptyMap
    /\ accessOrder = <<>>

\* The elements of a list.
Elements(list) == {list[i] : i \in DOMAIN list}

\* C21: in every reachable state the access order holds each stored key
\* exactly once and no key that is not stored: the stored keys are the
\* elements of the list and the list has no duplicates.
C21_AccessOrderListsStoredKeys ==
    /\ DOMAIN cache = Elements(accessOrder)
    /\ \A i, j \in DOMAIN accessOrder : accessOrder[i] = accessOrder[j] => i = j

\* C25: has(key) and getSize() change neither the stored entries nor the
\* access order, so a key that is only queried gains no recency.
C25_HasAndGetSizeReadOnly ==
    [][cacheCall'.op \in {"has", "getSize"}
       => cache' = cache /\ accessOrder' = accessOrder]_vars

\* has has found the key that is next to be evicted from a full cache, and
\* the key is still the next to be evicted.
C25_Witness ==
    /\ cacheCall.op = "has"
    /\ cacheCall.ret = JsBool(TRUE)
    /\ Cardinality(DOMAIN cache) = maxSize
    /\ Len(accessOrder) = maxSize
    /\ Head(accessOrder) = cacheCall.key

(***************************************************************************)
(* Properties of ViewportRenderer, under SpecScheduler.                    *)
(***************************************************************************)
\* |a - b| > bound.
FartherThan(a, b, bound) == RGt(RSub(a, b), bound) \/ RGt(RSub(b, a), bound)

\* The region an updateViewport with the arguments u computes.
RegionOf(u) ==
    calculateRenderRegion(u.viewport, u.imageWidth, u.imageHeight, Rat(1, 5))

\* C5: shouldRedraw returns true, whatever the viewport and the threshold,
\* when no updateViewport has happened since construction or the last reset,
\* and when it is the first call after markDirty.
C5_RedrawWhenUninitializedOrDirty ==
    [][(/\ schedCall'.op = "shouldRedraw"
        /\ (lastUpdate = JsNull \/ schedCall.op = "markDirty"))
       => schedCall'.ret = JsBool(TRUE)]_vars

\* shouldRedraw has answered true for the very viewport of the last update,
\* because the scheduler was marked dirty.
C5_Witness ==
    /\ schedCall.op = "shouldRedraw"
    /\ lastUpdate # JsNull
    /\ needsFullRedraw
    /\ schedCall.viewport = lastUpdate.viewport
    /\ schedCall.ret = JsBool(TRUE)

\* C6: in the Clean state shouldRedraw(newViewport, threshold) is true exactly
\* when |dx| or |dwidth| exceeds newViewport.width * threshold, or |dy| or
\* |dheight| exceeds newViewport.height * threshold, or |dscale| exceeds 0.01,
\* the deltas taken against the last updated viewport; a viewport that differs
\* from it only by |dx| < width * threshold gives false.
C6_CleanComparison ==
    (schedCall.op = "shouldRedraw" /\ lastUpdate # JsNull /\ ~needsFullRedraw)
    => LET old == lastUpdate.viewport
           new == schedCall.viewport
           t   == schedCall.threshold
       IN  /\ schedCall.ret = JsBool(
                \/ FartherThan(new.x, old.x, RMul(new.width, t))
                \/ FartherThan(new.y, old.y, RMul(new.height, t))
                \/ FartherThan(new.width, old.width, RMul(new.width, t))
                \/ FartherThan(new.height, old.height, RMul(new.height, t))
                \/ FartherThan(new.scale, old.scale, Rat(1, 100)))
           /\ (/\ new.y = old.y /\ new.width = old.width
               /\ new.height = old.height /\ new.scale = old.scale
               /\ RLt(RAbs(RSub(new.x, old.x)), RMul(new.width, t)))
              => schedCall.ret = JsBool(FALSE)

\* In the Clean state shouldRedraw has answered false for a viewport panned
\* by less than the threshold.
C6_Witness ==
    /\ schedCall.op = "shouldRedraw"
    /\ lastUpdate # JsNull
    /\ ~needsFullRedraw
    /\ schedCall.viewport.x # lastUpdate.viewport.x
    /\ schedCall.ret = JsBool(FALSE)

\* C7: updateViewport(viewport, imageW, imageH) leaves lastViewport = viewport,
\* renderRegion = calculateRenderRegion(viewport, imageW, imageH, 0.2) and
\* needsFullRedraw = false, and a shouldRedraw of the same viewport that
\* follows it immediately returns false.
C7_UpdateLeavesClean ==
    [][/\ schedCall'.op = "updateViewport"
          => /\ lastViewport' = schedCall'.viewport
             /\ renderRegion' = RegionOf(schedCall')
             /\ needsFullRedraw' = FALSE
       /\ (/\ schedCall.op = "updateViewport"
           /\ schedCall'.op = "shouldRedraw"
           /\ schedCall'.viewport = schedCall.viewport)
          => schedCall'.ret = JsBool(FALSE)]_vars

\* C8: markDirty sets needsFullRedraw and leaves lastViewport and
\* renderRegion unchanged; a getRenderRegion that follows it returns the
\* region of the last update, and a shouldRedraw that follows it returns true.
C8_MarkDirtyKeepsRegion ==
    [][/\ schedCall'.op = "markDirty"
          => /\ needsFullRedraw' = TRUE
             /\ lastViewport' = lastViewport
             /\ renderRegion' = renderRegion
       /\ (schedCall.op = "markDirty" /\ schedCall'.op = "getRenderRegion")
          => schedCall'.ret = IF lastUpdate = JsNull THEN JsNull
                              ELSE RegionOf(lastUpdate)
       /\ (schedCall.op = "markDirty" /\ schedCall'.op = "shouldRedraw")
          => schedCall'.ret = JsBool(TRUE)]_vars

\* markDirty has been called on a scheduler that holds a region.
C8_Witness ==
    /\ schedCall.op = "markDirty"
    /\ lastUpdate # JsNull
    /\ renderRegion = RegionOf(lastUpdate)
    /\ needsFullRedraw

\* C9: after reset the three fields have their values at construction;
\* getRenderRegion returns null exactly when no updateViewport has happened
\* since construction or the last reset, and otherwise the region computed by
\* the most recent updateViewport.
C9_ResetAndGetRenderRegion ==
    /\ schedCall.op = "reset"
       => /\ lastViewport = JsNull
          /\ renderRegion = JsNull
          /\ needsFullRedraw = TRUE
    /\ schedCall.op = "getRenderRegion"
       => /\ (schedCall.ret = JsNull) <=> (lastUpdate = JsNull)
          /\ lastUpdate # JsNull => schedCall.ret = RegionOf(lastUpdate)

\* reset has been called on a scheduler that had been updated.
C9_Witness ==
    /\ schedCall.op = "reset"
    /\ schedCall.wasUpdated
    /\ renderRegion = JsNull

\* C22: shouldRedraw and getRenderRegion leave lastViewport, renderRegion and
\* needsFullRedraw unchanged, and needsFullRedraw goes from true to false only
\* in updateViewport, so a dirty mark outlives every shouldRedraw.
C22_OnlyUpdateMarkDirtyResetWrite ==
    [][/\ schedCall'.op \in {"shouldRedraw", "getRenderRegion"}
          => /\ lastViewport' = lastViewport
             /\ renderRegion' = renderRegion
             /\ needsFullRedraw' = needsFullRedraw
       /\ (needsFullRedraw /\ ~needsFullRedraw')
          => schedCall'.op = "updateViewport"]_vars

\* A second shouldRedraw in a row has been answered while the scheduler is
\* Dirty, and it still is.
C22_Witness ==
    /\ schedCall.op = "shouldRedraw"
    /\ lastViewport # JsNull
    /\ needsFullRedraw
    /\ schedCall.viewport # lastViewport
    /\ schedCall.ret = JsBool(TRUE)

\* C23: lastViewport is null exactly when renderRegion is null, and
\* lastViewport = null implies needsFullRedraw = true.
C23_NullTogetherAndUninitializedDirty ==
    /\ (lastViewport = JsNull) <=> (renderRegion = JsNull)
    /\ lastViewport = JsNull => needsFullRedraw

\* The Clean state: a last viewport and a region exist, the flag is false.
C23_Witness ==
    /\ schedCall.op = "updateViewport"
    /\ lastViewport # JsNull
    /\ renderRegion # JsNull
    /\ ~needsFullRedraw

\* C24: shouldRedraw compares with the viewport of the last updateViewport,
\* not with the viewport of the previous shouldRedraw: a call that continues a
\* run of pans, each within the threshold of its predecessor and answered
\* false, answers true exactly when the displacement from the last updated
\* viewport exceeds the threshold.
C24_ComparesWithLastUpdate ==
    (schedCall.op = "shouldRedraw" /\ schedCall.drift)
    => /\ lastUpdate # JsNull
       /\ lastViewport = lastUpdate.viewport
       /\ LET old == lastUpdate.viewport
              new == schedCall.viewport
              t   == schedCall.threshold
          IN  schedCall.ret = JsBool(
                \/ RGt(RAbs(RSub(new.x, old.x)), RMul(new.width, t))
                \/ RGt(RAbs(RSub(new.y, old.y)), RMul(new.height, t))
                \/ RGt(RAbs(RSub(new.width, old.width)), RMul(new.width, t))
                \/ RGt(RAbs(RSub(new.height, old.height)), RMul(new.height, t))
                \/ RGt(RAbs(RSub(new.scale, old.scale)), Rat(1, 100)))

\* A pan within the threshold of its predecessor, which was answered false,
\* is answered true.
C24_Witness ==
    /\ schedCall.op = "shouldRedraw"
    /\ schedCall.drift
    /\ schedCall.threshold = DefaultThreshold
    /\ RGt(schedCall.viewport.width, Num(0))
    /\ schedCall.ret = JsBool(TRUE)

(***************************************************************************)
(* Properties of calculateViewport, under SpecGeometry.                    *)
(***************************************************************************)
\* C10: for positive container and image sizes, a positive zoom and every
\* pan offset, the viewport has x >= 0, y >= 0, x + width <= imageWidth and
\* y + height <= imageHeight.
C10_ViewportWithinImage ==
    geomResult # JsUndefined
    => /\ RGe(geomResult.x, Num(0))
       /\ RGe(geomResult.y, Num(0))
       /\ RLe(RAdd(geomResult.x, geomResult.width), Num(geomArgs.imageWidth))
       /\ RLe(RAdd(geomResult.y, geomResult.height), Num(geomArgs.imageHeight))

\* A viewport that starts inside the image and is cut at its right and bottom
\* edges: the container shows more than what is left of the image.
C10_Witness ==
    /\ geomResult # JsUndefined
    /\ RGt(geomResult.x, Num(0))
    /\ RGt(geomResult.y, Num(0))
    /\ RGt(geomResult.width, Num(0))
    /\ RAdd(geomResult.x, geomResult.width) = Num(geomArgs.imageWidth)
    /\ RAdd(geomResult.y, geomResult.height) = Num(geomArgs.imageHeight)
    /\ RLt(geomResult.width, RDiv(Num(geomArgs.containerWidth), geomResult.scale))
    /\ RLt(geomResult.height, RDiv(Num(geomArgs.containerHeight), geomResult.scale))

\* C11: for positive container and image sizes, a positive zoom and every
\* pan offset, the viewport has width >= 0 and height >= 0.
C11_ViewportExtentNonNegative ==
    geomResult # JsUndefined
    => /\ RGe(geomResult.width, Num(0))
       /\ RGe(geomResult.height, Num(0))

\* C16: calculateViewport(800, 600, 4096, 4096, 100, 0, 0) returns
\* x = 0, y = 0, width = 800, height = 600, scale = 1.
C16_LargeImageAtOrigin ==
    (geomArgs = LargeImageArgs /\ geomResult # JsUndefined)
    => geomResult = [x |-> Num(0), y |-> Num(0),
                     width |-> Num(800), height |-> Num(600), scale |-> Num(1)]

\* C16, amended: calculateViewport(800, 600, 4096, 4096, 100, 0, 0) returns the
\* centred viewport x = 1648, y = 1748, width = 800, height = 600, scale = 1.
C16_LargeImageCentred ==
    (geomArgs = LargeImageArgs /\ geomResult # JsUndefined)
    => geomResult = [x |-> Num(1648), y |-> Num(1748),
                     width |-> Num(800), height |-> Num(600), scale |-> Num(1)]

\* calculateViewport(800, 600, 4096, 4096, 100, 0, 0) has returned.
C16_Witness ==
    /\ geomArgs = LargeImageArgs
    /\ geomResult # JsUndefined
    /\ geomResult.width = Num(800)

\* The displayed image is no larger than the container.
FitsContainer(a) ==
    /\ RLe(RMul(Num(a.imageWidth), Rat(a.zoom, 100)), Num(a.containerWidth))
    /\ RLe(RMul(Num(a.imageHeight), Rat(a.zoom, 100)), Num(a.containerHeight))

\* The left edge (top edge) of the displayed image in the container.
LeftEdge(a) ==
    RAdd(RDiv(RSub(Num(a.containerWidth),
                   RMul(Num(a.imageWidth), Rat(a.zoom, 100))), Num(2)),
         Num(a.positionX))

TopEdge(a) ==
    RAdd(RDiv(RSub(Num(a.containerHeight),
                   RMul(Num(a.imageHeight), Rat(a.zoom, 100))), Num(2)),
         Num(a.positionY))

WholeImage(a, v) ==
    /\ v.x = Num(0) /\ v.y = Num(0)
    /\ v.width = Num(a.imageWidth) /\ v.height = Num(a.imageHeight)

\* C19: whenever the displayed image is no larger than the container, the
\* viewport is the whole image (x = 0, y = 0, width = imageWidth,
\* height = imageHeight), for every pan offset.
C19_FittingImageWholeForEveryPan ==
    (geomResult # JsUndefined /\ FitsContainer(geomArgs))
    => WholeImage(geomArgs, geomResult)

\* C19, amended: whenever the displayed image is no larger than the container
\* and the pan leaves its left and top edges inside the container
\* (imgLeft >= 0 and imgTop >= 0, as with no pan), the viewport is the whole
\* image.
C19_FittingImageWholeWhenEdgesInside ==
    (/\ geomResult # JsUndefined
     /\ FitsContainer(geomArgs)
     /\ RGe(LeftEdge(geomArgs), Num(0))
     /\ RGe(TopEdge(geomArgs), Num(0)))
    => WholeImage(geomArgs, geomResult)

\* A panned image smaller than the container is reported whole.
C19_Witness ==
    /\ geomResult # JsUndefined
    /\ FitsContainer(geomArgs)
    /\ geomArgs.positionX # 0
    /\ geomArgs.positionY # 0
    /\ RLt(RMul(Num(geomArgs.imageWidth), Rat(geomArgs.zoom, 100)),
           Num(geomArgs.containerWidth))
    /\ WholeImage(geomArgs, geomResult)

(***************************************************************************)
(* Properties of calculateViewport on degenerate geometry, under           *)
(* SpecDegenerate.                                                         *)
(***************************************************************************)
\* C18: with a zoom <= 0, or a zero or negative container or image
\* dimension, calculateViewport returns a viewport whose width and height are
\* both 0.
C18_DegenerateGivesZeroSize ==
    geomResult # JsUndefined
    => /\ geomResult.width = Num(0)
       /\ geomResult.height = Num(0)

(***************************************************************************)
(* Properties of calculateRenderRegion, under SpecRegion.                  *)
(***************************************************************************)
\* The bufferRatio in effect in the call.
RatioOf(a) == IF a.bufferRatio = JsUndefined THEN Rat(1, 5) ELSE a.bufferRatio

\* C12: for every valid viewport and every buffer ratio >= 0, the source
\* rectangle lies within the image: sourceX, sourceY, sourceWidth and
\* sourceHeight are >= 0, sourceX + sourceWidth <= imageWidth and
\* sourceY + sourceHeight <= imageHeight.
C12_SourceWithinImage ==
    geomResult # JsUndefined
    => /\ RGe(geomResult.sourceX, Num(0))
       /\ RGe(geomResult.sourceY, Num(0))
       /\ RGe(geomResult.sourceWidth, Num(0))
       /\ RGe(geomResult.sourceHeight, Num(0))
       /\ RLe(RAdd(geomResult.sourceX, geomResult.sourceWidth), Num(geomArgs.imageWidth))
       /\ RLe(RAdd(geomResult.sourceY, geomResult.sourceHeight), Num(geomArgs.imageHeight))

\* A buffered fractional viewport whose source rectangle is cut at the
\* image's right and bottom edges.
C12_Witness ==
    /\ geomResult # JsUndefined
    /\ geomArgs.viewport.x = Rat(1, 2)
    /\ geomArgs.viewport.height = Rat(3, 2)
    /\ RatioOf(geomArgs) = Num(1)
    /\ RAdd(geomResult.sourceX, geomResult.sourceWidth) = Num(geomArgs.imageWidth)
    /\ RAdd(geomResult.sourceY, geomResult.sourceHeight) = Num(geomArgs.imageHeight)
    /\ RGt(geomResult.sourceWidth, Num(1))

\* C13: for every valid viewport, fractional ones included, the source
\* rectangle contains the viewport cut at the image bounds:
\* sourceX <= viewport.x, sourceY <= viewport.y,
\* sourceX + sourceWidth >= min(imageWidth, viewport.x + viewport.width) and
\* sourceY + sourceHeight >= min(imageHeight, viewport.y + viewport.height).
C13_SourceContainsViewport ==
    geomResult # JsUndefined
    => LET v == geomArgs.viewport
       IN  /\ RLe(geomResult.sourceX, v.x)
           /\ RLe(geomResult.sourceY, v.y)
           /\ RGe(RAdd(geomResult.sourceX, geomResult.sourceWidth),
                  RMin(Num(geomArgs.imageWidth), RAdd(v.x, v.width)))
           /\ RGe(RAdd(geomResult.sourceY, geomResult.sourceHeight),
                  RMin(Num(geomArgs.imageHeight), RAdd(v.y, v.height)))

C20_RoundingNeverUnderRenders ==
    geomResult # JsUndefined
    => LET v       == geomArgs.viewport
           bufferX == RMul(v.width, RatioOf(geomArgs))
           bufferY == RMul(v.height, RatioOf(geomArgs))
           left    == RMax(Num(0), RSub(v.x, bufferX))
           top     == RMax(Num(0), RSub(v.y, bufferY))
           right   == RMin(Num(geomArgs.imageWidth), RAdd(RAdd(v.x, v.width), bufferX))
           bottom  == RMin(Num(geomArgs.imageHeight), RAdd(RAdd(v.y, v.height), bufferY))
       IN  /\ RLe(geomResult.sourceX, left)
           /\ RLe(geomResult.sourceY, top)
           /\ RGe(RAdd(geomResult.sourceX, geomResult.sourceWidth), right)
           /\ RGe(RAdd(geomResult.sourceY, geomResult.sourceHeight), bottom)
           /\ RLe(RSub(geomResult.sourceWidth, RSub(right, left)), Num(1))
           /\ RLe(RSub(geomResult.sourceHeight, RSub(bottom, top)), Num(1))

(***************************************************************************)
(* Properties of filterOpsInViewport, under SpecCull.                      *)
(***************************************************************************)
\* The toolSize in effect in the call.
ToolSizeOf(a) == IF a.toolSize = JsUndefined THEN Num(0) ELSE a.toolSize

\* The point of op lies within the viewport widened by 2 * toolSize on every
\* side, bounds included.
Kept(op, viewport, toolSize) ==
    LET reach == RAdd(toolSize, toolSize)
    IN  /\ RLe(RSub(viewport.x, reach), op.x)
        /\ RLe(op.x, RAdd(RAdd(viewport.x, viewport.width), reach))
        /\ RLe(RSub(viewport.y, reach), op.y)
        /\ RLe(op.y, RAdd(RAdd(viewport.y, viewport.height), reach))

\* C14: filterOpsInViewport(ops, viewport, toolSize) returns exactly the
\* elements of ops, in their original order, whose point satisfies
\* viewport.x - 2*toolSize <= x <= viewport.x + viewport.width + 2*toolSize
\* and the same on y, bounds inclusive; an empty input gives an empty output
\* and toolSize 0 gives the exact viewport membership test.
C14_FilterKeepsExactlyPointsInReach ==
    geomResult # JsUndefined
    => LET v == geomArgs.viewport
           t == ToolSizeOf(geomArgs)
           keep(op) == Kept(op, v, t)
           inside(op) == /\ RLe(v.x, op.x) /\ RLe(op.x, RAdd(v.x, v.width))
                         /\ RLe(v.y, op.y) /\ RLe(op.y, RAdd(v.y, v.height))
       IN  /\ geomResult.items = SelectSeq(geomArgs.ops, keep)
           /\ geomArgs.ops = <<>> => geomResult.items = <<>>
           /\ t = Num(0) => geomResult.items = SelectSeq(geomArgs.ops, inside)

\* Of two operations, the one on the widened viewport's edge is kept and the
\* one just outside it is dropped.
C14_Witness ==
    /\ geomResult # JsUndefined
    /\ ToolSizeOf(geomArgs) = Rat(1, 2)
    /\ Len(geomArgs.ops) = 2
    /\ Len(geomResult.items) = 1
    /\ geomResult.items[1] = geomArgs.ops[2]
    /\ geomResult.items[1].x = RAdd(RAdd(geomArgs.viewport.x, geomArgs.viewport.width), Num(1))
    /\ geomArgs.ops[1].x = RSub(geomArgs.viewport.x, Num(2))

(***************************************************************************)
(* Properties of throttle, under SpecThrottle.                             *)
(***************************************************************************)
\* The arguments of the calls that found the wrapper idle, in order.
RECURSIVE IdleCalls(_)
IdleCalls(log) ==
    IF log = <<>> THEN <<>>
    ELSE IF Last(log).open
         THEN IdleCalls(SubSeq(log, 1, Len(log) - 1))
         ELSE Append(IdleCalls(SubSeq(log, 1, Len(log) - 1)), Last(log).arg)

\* The arguments func has been invoked with, in order.
Invoked == [i \in DOMAIN funcLog |-> funcLog[i].arg]

DebounceSafe ==
    /\ Cardinality(timerQueue) <= 1
    /\ timeout # JsNull <=> timerQueue # {}
    /\ \A task \in timerQueue : timeout = JsNum(task.id) /\ task.args = Len(callLog)
    /\ \A i \in DOMAIN funcLog : funcLog[i].arg = funcLog[i].calls
    /\ \A i, j \in DOMAIN funcLog : i < j => funcLog[i].arg < funcLog[j].arg
    /\ timerQueue = {} /\ callLog # <<>>
       => funcLog # <<>> /\ Last(funcLog).arg = Len(callLog)

\* The call the last invocation of func served, 0 when there is none.
LastServed == IF funcLog = <<>> THEN 0 ELSE Last(funcLog).arg

\* C28: at most one timer is pending at any time; func is invoked only when a
\* timer expires with no call in between, with the arguments of the most
\* recent call; and when the calls stop, func is eventually invoked, once, for
\* the burst.
C28_DebounceTrailingOnce ==
    /\ []DebounceSafe
    /\ [][funcLog' # funcLog
          => /\ callLog' = callLog
             /\ timerQueue # {} /\ timerQueue' = {}
             /\ funcLog' = Append(funcLog, [arg |-> Len(callLog), fired |-> fired,
                                            calls |-> Len(callLog)])]_vars
    /\ \A n \in 1..MaxCalls :
          (Len(callLog) = n)
             ~> (Len(callLog) > n
                 \/ (timerQueue = {} /\ LastServed = n))

\* A burst of three calls has been served by one invocation, with the
\* arguments of the third.
C28_Witness ==
    /\ Len(callLog) = 3
    /\ callLog[2].open /\ callLog[3].open
    /\ Invoked = <<3>>
    /\ timerQueue = {}

(***************************************************************************)
(* Properties of FPSMonitor, under SpecFpsMonitor.                         *)
(***************************************************************************)
\* C29: after stop() has returned no animation-frame request of the monitor
\* is pending, so that measure does not run again, whatever start() and
\* stop() calls came before; and the frames buffer holds at most 60 samples.
C29_FpsStopLeavesNoFrame ==
    /\ fpsStopped => frameQueue = {}
    /\ Len(fpsFrames) <= FrameBufferSize

(***************************************************************************)
(* Properties of GPUMonitor, under SpecGpuMonitor.                         *)
(***************************************************************************)
\* C30: GPUMonitor runs at most one animation-frame loop at a time, a start()
\* while monitoring adding none, and once stop() has set isMonitoring to false
\* no frame is pending and the monitor callback requests none.
C30_GpuSingleLoop ==
    /\ Cardinality(frameQueue) <= 1
    /\ ~isMonitoring => frameQueue = {}

=============================================================================
